---- MODULE Spec2Model ----
(***************************************************************************)
(* A model of saba_core::url::Url (URL decomposition) and of               *)
(* wasabi::http::HttpClient::get (one blocking HTTP/1.1 GET exchange).     *)
(*                                                                         *)
(* Strings are sequences of one-character strings, byte buffers are        *)
(* sequences of numbers 0..255.  Rust's Option<usize> is an integer, with  *)
(* None for Option::None; indices are 0-based as in the source.            *)
(***************************************************************************)
EXTENDS Integers, Sequences, FiniteSets, TLC

VARIABLES self, ret, prev, calls, input,
          call,
          peer,
          pool

urlVars == <<self, ret, prev, calls, input>>
httpVars == <<call>>
vars == <<self, ret, prev, calls, input, call, peer, pool>>

(***************************************************************************)
(* Bounds of the model.                                                    *)
(***************************************************************************)
MaxTail == 4        \* longest free-form text after the prefix of a raw URL
MaxSchemes == 2     \* most repetitions of "http://" in front of a raw URL
MaxComp == 2        \* longest path / query of a composed URL
MaxParses == 2      \* most parse() calls made on one raw URL

None == -1

(***************************************************************************)
(* String helpers: what the core/alloc string methods used by url.rs do.   *)
(***************************************************************************)
SeqsUpTo(S, n) == UNION {[1..k -> S] : k \in 0..n}

RECURSIVE Repeat(_, _)
Repeat(s, k) == IF k = 0 THEN <<>> ELSE s \o Repeat(s, k - 1)

\* str::starts_with
starts_with(s, p) == Len(s) >= Len(p) /\ SubSeq(s, 1, Len(p)) = p

\* str::trim_start_matches: removes the prefix p as often as it occurs
RECURSIVE trim_start_matches(_, _)
trim_start_matches(s, p) ==
    IF starts_with(s, p)
    THEN trim_start_matches(SubSeq(s, Len(p) + 1, Len(s)), p)
    ELSE s

\* str::find with a char or char-set pattern: 0-based index of the first match
find(s, D) ==
    IF \E i \in 1..Len(s) : s[i] \in D
    THEN (CHOOSE i \in 1..Len(s) : s[i] \in D /\ \A j \in 1..(i - 1) : s[j] \notin D) - 1
    ELSE None

\* str::split(pattern).collect(): every piece between matches, never empty list
RECURSIVE split(_, _)
split(s, D) ==
    LET i == find(s, D)
    IN  IF i = None THEN <<s>>
        ELSE <<SubSeq(s, 1, i)>> \o split(SubSeq(s, i + 2, Len(s)), D)

\* str::splitn(2, pattern).collect()
splitn2(s, D) ==
    LET i == find(s, D)
    IN  IF i = None THEN <<s>>
        ELSE <<SubSeq(s, 1, i), SubSeq(s, i + 2, Len(s))>>

\* Results of operations that Rust bounds-checks: a value, or a panic.
Val(v) == [panic |-> FALSE, val |-> v]
Panicked == [panic |-> TRUE, val |-> <<>>]

\* parts[i] on a Vec
Index(parts, i) == IF i < Len(parts) THEN Val(parts[i + 1]) ELSE Panicked
\* s[..n]
SliceTo(s, n) == IF n <= Len(s) THEN Val(SubSeq(s, 1, n)) ELSE Panicked
\* s[n..]
SliceFrom(s, n) == IF n <= Len(s) THEN Val(SubSeq(s, n + 1, Len(s))) ELSE Panicked

(***************************************************************************)
(* saba_core::url::Url                                                     *)
(***************************************************************************)
Scheme == <<"h", "t", "t", "p", ":", "/", "/">>
HostDelims == {"/", "?"}
DefaultPort == <<"8", "0">>
SchemeError == "Only HTTP scheme is supported."

new(url) == [url |-> url, host |-> <<>>, port |-> <<>>, path |-> <<>>,
             searchpart |-> <<>>]

\* is_http comparing the scheme name only, without the "://" that follows it
is_http_name_only(u) == starts_with(u.url, <<"h", "t", "t", "p">>)

is_http(u) == starts_with(u.url, Scheme)

extract_host(u) ==
    LET url_parts == split(trim_start_matches(u.url, Scheme), HostDelims)
        host_with_port == Index(url_parts, 0)
    IN  IF host_with_port.panic THEN Panicked
        ELSE LET index == find(host_with_port.val, {":"})
             IN  IF index # None THEN SliceTo(host_with_port.val, index)
                 ELSE Val(host_with_port.val)

extract_port(u) ==
    LET url_parts == split(trim_start_matches(u.url, Scheme), HostDelims)
        host_with_port == Index(url_parts, 0)
    IN  IF host_with_port.panic THEN Panicked
        ELSE LET index == find(host_with_port.val, {":"})
             IN  IF index # None THEN SliceFrom(host_with_port.val, index + 1)
                 ELSE Val(DefaultPort)

extract_path(u) ==
    LET url_parts == splitn2(trim_start_matches(u.url, Scheme), {"/"})
    IN  IF Len(url_parts) < 2 THEN Val(<<>>)
        ELSE LET rest == Index(url_parts, 1)
             IN  IF rest.panic THEN Panicked
                 ELSE Index(splitn2(rest.val, {"?"}), 0)

extract_searchpart(u) ==
    LET index == find(u.url, {"?"})
    IN  IF index # None THEN SliceFrom(u.url, index + 1) ELSE Val(<<>>)

\* The value parse() produces and the instance it leaves behind.  The four
\* assignments run in order, so a panic keeps the fields assigned before it.
NoUrl == new(<<>>)
Ok(u) == [kind |-> "Ok", val |-> u, err |-> ""]
Err(e) == [kind |-> "Err", val |-> NoUrl, err |-> e]
Panic == [kind |-> "Panic", val |-> NoUrl, err |-> ""]
NotCalled == [kind |-> "NotCalled", val |-> NoUrl, err |-> ""]

\* parse() filling the fields first and testing the scheme afterwards
parse_check_last(u) ==
    LET u4 == [u EXCEPT !.host = extract_host(u).val,
                        !.port = extract_port(u).val,
                        !.path = extract_path(u).val,
                        !.searchpart = extract_searchpart(u).val]
    IN  IF ~is_http(u) THEN [self |-> u4, result |-> Err(SchemeError)]
        ELSE [self |-> u4, result |-> Ok(u4)]

\* parse() extending the fields (push_str) where the source assigns them
parse_appending(u) ==
    IF ~is_http(u) THEN [self |-> u, result |-> Err(SchemeError)]
    ELSE
    LET u4 == [u EXCEPT !.host = u.host \o extract_host(u).val,
                        !.port = u.port \o extract_port(u).val,
                        !.path = u.path \o extract_path(u).val,
                        !.searchpart = u.searchpart \o extract_searchpart(u).val]
    IN  [self |-> u4, result |-> Ok(u4)]

parse(u) ==
    IF ~is_http(u) THEN [self |-> u, result |-> Err(SchemeError)]
    ELSE
    LET h == extract_host(u)
        u1 == [u EXCEPT !.host = h.val]
        p == extract_port(u1)
        u2 == [u1 EXCEPT !.port = p.val]
        pa == extract_path(u2)
        u3 == [u2 EXCEPT !.path = pa.val]
        s == extract_searchpart(u3)
        u4 == [u3 EXCEPT !.searchpart = s.val]
    IN  IF h.panic THEN [self |-> u, result |-> Panic]
        ELSE IF p.panic THEN [self |-> u1, result |-> Panic]
        ELSE IF pa.panic THEN [self |-> u2, result |-> Panic]
        ELSE IF s.panic THEN [self |-> u3, result |-> Panic]
        ELSE [self |-> u4, result |-> Ok(u4)]

(***************************************************************************)
(* The raw URLs a caller can hand to Url::new.                             *)
(***************************************************************************)
UrlChars == {":", "/", "?", "a", "8"}
Tails == SeqsUpTo(UrlChars, MaxTail)
Prefixes == {Repeat(Scheme, k) : k \in 0..MaxSchemes}
              \cup {<<"h", "t", "t", "p", "s", ":", "/", "/">>,
                    <<"h", "t", "t", "p", ":", "/">>,
                    <<"H", "T", "T", "P", ":", "/", "/">>}

\* A raw URL put together from components.
CompHosts == {<<>>, <<"a">>, <<"a", "8">>}
CompPorts == {<<"8">>, <<"8", "8">>}
CompPaths == SeqsUpTo({"a", "/"}, MaxComp)
CompQueries == SeqsUpTo({"a", "/", "?"}, MaxComp)

Compose(c) ==
    Scheme \o c.host
           \o (IF c.hasPort THEN <<":">> \o c.port ELSE <<>>)
           \o (IF c.hasPath THEN <<"/">> \o c.path ELSE <<>>)
           \o (IF c.hasQuery THEN <<"?">> \o c.query ELSE <<>>)

Components ==
    {c \in [host : CompHosts, hasPort : BOOLEAN, port : CompPorts \cup {<<>>},
            hasPath : BOOLEAN, path : CompPaths,
            hasQuery : BOOLEAN, query : CompQueries] :
        /\ (c.hasPort <=> c.port # <<>>)
        /\ (~c.hasPath => c.path = <<>>)
        /\ (~c.hasQuery => c.query = <<>>)}

FreeForm(raw) == [composed |-> FALSE, raw |-> raw, comp |-> {}]
Composed(c) == [composed |-> TRUE, raw |-> Compose(c), comp |-> {c}]

Inputs == {FreeForm(p \o t) : p \in Prefixes, t \in Tails}
            \cup {Composed(c) : c \in Components}

(***************************************************************************)
(* The HTTP call is idle while the URL operations are explored.            *)
(***************************************************************************)
IdleCall == [pc |-> "idle"]

(***************************************************************************)
(* URL state machine: Url::new(raw), then parse() on the instance or on    *)
(* the record a successful parse() returned.                               *)
(***************************************************************************)
UrlInit ==
    /\ input \in Inputs
    /\ self = new(input.raw)
    /\ ret = NotCalled
    /\ prev = NotCalled
    /\ calls = 0
    /\ call = IdleCall
    /\ peer = "any"
    /\ pool = <<>>

\* u.parse() on the instance the caller holds
Parse ==
    /\ calls < MaxParses
    /\ ret.kind # "Panic"
    /\ LET r == parse(self)
       IN  /\ self' = r.self
           /\ ret' = r.result
    /\ prev' = ret
    /\ calls' = calls + 1
    /\ UNCHANGED <<input, call, peer, pool>>

\* r.parse() on the record returned by the last successful parse()
ParseReturned ==
    /\ calls < MaxParses
    /\ ret.kind = "Ok"
    /\ LET r == parse(ret.val)
       IN  /\ self' = r.self
           /\ ret' = r.result
    /\ prev' = ret
    /\ calls' = calls + 1
    /\ UNCHANGED <<input, call, peer, pool>>

UrlNext == Parse \/ ParseReturned

UrlSpec == UrlInit /\ [][UrlNext]_vars

(***************************************************************************)
(* wasabi::http::HttpClient::get                                           *)
(***************************************************************************)
BufSize == 4096

\* The pieces of the format string of the request
RequestHead ==
    <<"G", "E", "T", " ", "/">>
RequestMid ==
    <<" ", "H", "T", "T", "P", "/", "1", ".", "1", "\r", "\n", "H",
      "o", "s", "t", ":", " ">>
RequestTail ==
    <<"\r", "\n", "A", "c", "c", "e", "p", "t", ":", " ", "t", "e",
      "x", "t", "/", "h", "t", "m", "l", "\r", "\n", "C", "o", "n",
      "n", "e", "c", "t", "i", "o", "n", ":", " ", "c", "l", "o", "s",
      "e", "\r", "\n", "\r", "\n">>

\* format!("GET /{} HTTP/1.1\r\nHost: {}\r\n...", &path, &host)
FormatRequest(path, host) ==
    RequestHead \o path \o RequestMid \o host \o RequestTail

\* Error::Network(message)
Network(msg) == [kind |-> "Err", variant |-> "Network", msg |-> msg, text |-> <<>>]
LookupFailedMsg == "Failed to find IP addresses: {e}"
NoAddressMsg == "Failed to find IP adresses"
ConnectFailedMsg == "Failed to connect to TCP stream"
SendFailedMsg == "Failed to send a request to TCP stream"
ReceiveFailedMsg == "Failed to receive a request from TCP stream"
InvalidUtf8Msg == "Invalid received response: {e}"

\* core::str::from_utf8: the code points of a well-formed UTF-8 byte
\* sequence, or an error
IsCont(b) == b >= 128 /\ b <= 191
RECURSIVE Utf8From(_, _)
Utf8From(bytes, i) ==
    IF i > Len(bytes) THEN [ok |-> TRUE, text |-> <<>>]
    ELSE
    LET b0 == bytes[i]
        at(k) == IF i + k <= Len(bytes) THEN bytes[i + k] ELSE 0
        width == IF b0 < 128 THEN 1
                 ELSE IF b0 >= 194 /\ b0 <= 223 THEN 2
                 ELSE IF b0 >= 224 /\ b0 <= 239 THEN 3
                 ELSE IF b0 >= 240 /\ b0 <= 244 THEN 4
                 ELSE 0
        second == IF b0 = 224 THEN at(1) >= 160 /\ at(1) <= 191
                  ELSE IF b0 = 237 THEN at(1) >= 128 /\ at(1) <= 159
                  ELSE IF b0 = 240 THEN at(1) >= 144 /\ at(1) <= 191
                  ELSE IF b0 = 244 THEN at(1) >= 128 /\ at(1) <= 143
                  ELSE IsCont(at(1))
        valid == /\ width > 0
                 /\ i + width - 1 <= Len(bytes)
                 /\ (width >= 2 => second)
                 /\ (width >= 3 => IsCont(at(2)))
                 /\ (width >= 4 => IsCont(at(3)))
        cp == IF width = 1 THEN b0
              ELSE IF width = 2 THEN (b0 - 192) * 64 + (at(1) - 128)
              ELSE IF width = 3
                   THEN (b0 - 224) * 4096 + (at(1) - 128) * 64 + (at(2) - 128)
              ELSE (b0 - 240) * 262144 + (at(1) - 128) * 4096
                     + (at(2) - 128) * 64 + (at(3) - 128)
    IN  IF ~valid THEN [ok |-> FALSE, text |-> <<>>]
        ELSE LET rest == Utf8From(bytes, i + width)
             IN  IF rest.ok THEN [ok |-> TRUE, text |-> <<cp>> \o rest.text]
                 ELSE rest

from_utf8(bytes) == Utf8From(bytes, 1)

\* One call of get(): its position, its locals, what it returned, and the
\* operations it has performed on its collaborators so far.
NoResult == [kind |-> "None", variant |-> "", msg |-> "", text |-> <<>>]
NewCall(host, port, path) ==
    [pc |-> "Resolving", host |-> host, port |-> port, path |-> path,
     ips |-> <<>>, stream |-> "none", wire |-> <<>>, received |-> <<>>,
     response |-> <<>>, result |-> NoResult, ops |-> <<>>]

\* The positions in a log of the operations with a given name
OpsNamedIn(log, name) == {i \in 1..Len(log) : log[i].op = name}
Op(name, arg, out) == [op |-> name, arg |-> arg, ret |-> out]
\* Fail with the stream kept alive past the return (moved out of the call)
Fail_stream_kept(c, msg) == [c EXCEPT !.pc = "Failed", !.result = Network(msg)]

\* return Err(Error::Network(..)): the local stream, if any, goes out of scope
Fail(c, msg) == [c EXCEPT !.pc = "Failed", !.result = Network(msg),
                          !.stream = IF c.stream = "open" THEN "dropped" ELSE c.stream]

\* ResolveStep without the check of ips.len()
ResolveStep_unchecked_len(c, out) ==
    LET d == [c EXCEPT !.ops = Append(c.ops, Op("lookup_host", c.host, out))]
    IN  IF ~out.ok THEN Fail(d, LookupFailedMsg)
        ELSE [d EXCEPT !.ips = out.ips, !.pc = "Connecting"]

\* lines 20-32: lookup_host(&host), then the check of ips.len()
ResolveStep(c, out) ==
    LET d == [c EXCEPT !.ops = Append(c.ops, Op("lookup_host", c.host, out))]
    IN  IF ~out.ok THEN Fail(d, LookupFailedMsg)
        ELSE IF Len(out.ips) < 1 THEN Fail(d, NoAddressMsg)
        ELSE [d EXCEPT !.ips = out.ips, !.pc = "Connecting"]

\* ConnectStep going on to the next resolved address when a connect fails
ConnectStep_fallback(c, out) ==
    IF Len(c.ips) < 1 THEN [c EXCEPT !.pc = "Panicked"]
    ELSE
    LET socket_addr == [addr |-> c.ips[1], port |-> c.port]
        d == [c EXCEPT !.ops = Append(c.ops, Op("connect", socket_addr, out))]
    IN  IF ~out.ok
        THEN IF Len(c.ips) > 1 THEN [d EXCEPT !.ips = Tail(c.ips)]
             ELSE Fail(d, ConnectFailedMsg)
        ELSE [d EXCEPT !.stream = "open", !.pc = "Sending"]

\* lines 34-42: TcpStream::connect((ips[0], port).into())
ConnectStep(c, out) ==
    IF Len(c.ips) < 1 THEN [c EXCEPT !.pc = "Panicked"]
    ELSE
    LET socket_addr == [addr |-> c.ips[1], port |-> c.port]
        d == [c EXCEPT !.ops = Append(c.ops, Op("connect", socket_addr, out))]
    IN  IF ~out.ok THEN Fail(d, ConnectFailedMsg)
        ELSE [d EXCEPT !.stream = "open", !.pc = "Sending"]

\* SendStep writing again when a write fails
SendStep_retry(c, out) ==
    LET request == FormatRequest(c.path, c.host)
        d == [c EXCEPT !.ops = Append(c.ops, Op("write", request, out))]
    IN  IF ~out.ok
        THEN IF OpsNamedIn(c.ops, "write") = {} THEN d ELSE Fail(d, SendFailedMsg)
        ELSE [d EXCEPT !.wire = SubSeq(request, 1, out.n), !.pc = "Receiving"]

\* lines 44-56: the request is formatted and written once; the count of
\* bytes written is bound to _bytes_written and not looked at
SendStep(c, out) ==
    LET request == FormatRequest(c.path, c.host)
        d == [c EXCEPT !.ops = Append(c.ops, Op("write", request, out))]
    IN  IF ~out.ok THEN Fail(d, SendFailedMsg)
        ELSE [d EXCEPT !.wire = SubSeq(request, 1, out.n), !.pc = "Receiving"]

\* ReadStep leaving the loop after a read that did not fill buf
ReadStep_break_on_short_read(c, out) ==
    LET buf(i) == IF i <= Len(out.data) THEN out.data[i] ELSE 0
        bytes_read == out.n
        d == [c EXCEPT !.ops = Append(c.ops, Op("read", BufSize, out))]
    IN  IF ~out.ok THEN Fail(d, ReceiveFailedMsg)
        ELSE IF bytes_read = 0 THEN [d EXCEPT !.pc = "Decoding"]
        ELSE IF bytes_read > BufSize THEN [d EXCEPT !.pc = "Panicked"]
        ELSE [d EXCEPT !.received = c.received \o [i \in 1..bytes_read |-> buf(i)],
                       !.pc = IF bytes_read < BufSize THEN "Decoding" ELSE c.pc]

\* ReadStep taking a read error for the end of the stream
ReadStep_error_as_eof(c, out) ==
    LET buf(i) == IF i <= Len(out.data) THEN out.data[i] ELSE 0
        bytes_read == out.n
        d == [c EXCEPT !.ops = Append(c.ops, Op("read", BufSize, out))]
    IN  IF ~out.ok \/ bytes_read = 0 THEN [d EXCEPT !.pc = "Decoding"]
        ELSE IF bytes_read > BufSize THEN [d EXCEPT !.pc = "Panicked"]
        ELSE [d EXCEPT !.received = c.received \o [i \in 1..bytes_read |-> buf(i)]]

\* ReadStep assigning the chunk to received where the source extends it
ReadStep_overwrite(c, out) ==
    LET buf(i) == IF i <= Len(out.data) THEN out.data[i] ELSE 0
        bytes_read == out.n
        d == [c EXCEPT !.ops = Append(c.ops, Op("read", BufSize, out))]
    IN  IF ~out.ok THEN Fail(d, ReceiveFailedMsg)
        ELSE IF bytes_read = 0 THEN [d EXCEPT !.pc = "Decoding"]
        ELSE IF bytes_read > BufSize THEN [d EXCEPT !.pc = "Panicked"]
        ELSE [d EXCEPT !.received = [i \in 1..bytes_read |-> buf(i)]]

\* lines 58-75: one turn of the loop: a fresh zeroed buf, one read, then the
\* break on 0 or received.extend_from_slice(&buf[..bytes_read])
ReadStep(c, out) ==
    LET buf(i) == IF i <= Len(out.data) THEN out.data[i] ELSE 0
        bytes_read == out.n
        d == [c EXCEPT !.ops = Append(c.ops, Op("read", BufSize, out))]
    IN  IF ~out.ok THEN Fail(d, ReceiveFailedMsg)
        ELSE IF bytes_read = 0 THEN [d EXCEPT !.pc = "Decoding"]
        ELSE IF bytes_read > BufSize THEN [d EXCEPT !.pc = "Panicked"]
        ELSE [d EXCEPT !.received = c.received \o [i \in 1..bytes_read |-> buf(i)]]

\* DecodeStep decoding as String::from_utf8_lossy does: an ill-formed
\* buffer becomes text with U+FFFD in it and the call goes on
DecodeStep_lossy(c) ==
    LET r == from_utf8(c.received)
        d == [c EXCEPT !.ops = Append(c.ops, Op("from_utf8", c.received, r))]
    IN  [d EXCEPT !.response = IF r.ok THEN r.text ELSE <<65533>>,
                  !.pc = "Parsing"]

\* line 77: core::str::from_utf8(&received)
DecodeStep(c) ==
    LET r == from_utf8(c.received)
        d == [c EXCEPT !.ops = Append(c.ops, Op("from_utf8", c.received, r))]
    IN  IF ~r.ok THEN Fail(d, InvalidUtf8Msg)
        ELSE [d EXCEPT !.response = r.text, !.pc = "Parsing"]

\* line 78: HttpResponse::new(response.to_string()), returned as it is
ConstructStep(c, out) ==
    [c EXCEPT !.ops = Append(c.ops, Op("HttpResponse::new", c.response, out)),
              !.result = out,
              !.stream = "dropped",
              !.pc = IF out.kind = "Ok" THEN "Success" ELSE "Failed"]

(***************************************************************************)
(* What the collaborators can answer.                                      *)
(***************************************************************************)
MaxIps == 2         \* longest address list the resolver returns
MaxShortfall == 1   \* most bytes a write() leaves unwritten (besides all)
MaxBytes == 2       \* most bytes the peer sends before it closes

GetHosts == {<<"a">>, <<"b", "c">>}
GetPorts == {80, 8080}
GetPaths == {<<>>, <<"x">>}
Addrs == {"10.0.0.1", "10.0.0.2"}
Bytes == {65, 195, 169}

LookupOutcomes ==
    {[ok |-> FALSE, ips |-> <<>>]}
        \cup {[ok |-> TRUE, ips |-> l] : l \in SeqsUpTo(Addrs, MaxIps)}
ConnectOutcomes == {[ok |-> b] : b \in BOOLEAN}
WriteOutcomes(request) ==
    {[ok |-> FALSE, n |-> 0], [ok |-> TRUE, n |-> 0]}
        \cup {[ok |-> TRUE, n |-> Len(request) - k] : k \in 0..MaxShortfall}
ReadOutcomes(c) ==
    {[ok |-> FALSE, n |-> 0, data |-> <<>>]}
        \cup {[ok |-> TRUE, n |-> Len(d), data |-> d] :
                d \in SeqsUpTo(Bytes, MaxBytes - Len(c.received))}
\* saba_core::http::HttpResponse::new: a structured response built from the
\* text, or a parse failure
ConstructOutcomes(text) ==
    {[kind |-> "Ok", variant |-> "HttpResponse", msg |-> "", text |-> text],
     [kind |-> "Err", variant |-> "UnexpectedInput", msg |-> "", text |-> <<>>]}

(***************************************************************************)
(* HTTP state machine: one call of get(), one step per operation.          *)
(***************************************************************************)
HttpInit ==
    /\ \E h \in GetHosts, p \in GetPorts, pa \in GetPaths :
          call = NewCall(h, p, pa)
    /\ input = FreeForm(<<>>)
    /\ self = new(input.raw)
    /\ ret = NotCalled
    /\ prev = NotCalled
    /\ calls = 0
    /\ peer = "any"
    /\ pool = <<>>

Resolve ==
    /\ call.pc = "Resolving"
    /\ \E out \in LookupOutcomes : call' = ResolveStep(call, out)
    /\ UNCHANGED <<urlVars, peer, pool>>

Connect ==
    /\ call.pc = "Connecting"
    /\ \E out \in ConnectOutcomes : call' = ConnectStep(call, out)
    /\ UNCHANGED <<urlVars, peer, pool>>

Send ==
    /\ call.pc = "Sending"
    /\ \E out \in WriteOutcomes(FormatRequest(call.path, call.host)) :
          call' = SendStep(call, out)
    /\ UNCHANGED <<urlVars, peer, pool>>

Read ==
    /\ call.pc = "Receiving"
    /\ \E out \in ReadOutcomes(call) : call' = ReadStep(call, out)
    /\ UNCHANGED <<urlVars, peer, pool>>

Decode ==
    /\ call.pc = "Decoding"
    /\ call' = DecodeStep(call)
    /\ UNCHANGED <<urlVars, peer, pool>>

Construct ==
    /\ call.pc = "Parsing"
    /\ \E out \in ConstructOutcomes(call.response) : call' = ConstructStep(call, out)
    /\ UNCHANGED <<urlVars, peer, pool>>

HttpNext == Resolve \/ Connect \/ Send \/ Read \/ Decode \/ Construct

HttpSpec == HttpInit /\ [][HttpNext]_vars

(***************************************************************************)
(* One call of get() against a peer that either ends the stream at some    *)
(* time (a read of zero bytes, or a read error) or sends chunks for ever.  *)
(* Every collaborator call returns.  The stream has no end, the state      *)
(* has: once MaxBytes bytes are held, a further chunk leaves received and  *)
(* the log as they are and only the position the loop turn leads to is     *)
(* kept.                                                                   *)
(***************************************************************************)
ChunkOutcomes ==
    {[ok |-> TRUE, n |-> Len(d), data |-> d] :
        d \in SeqsUpTo(Bytes, MaxBytes) \ {<<>>}}
EndOutcomes ==
    {[ok |-> FALSE, n |-> 0, data |-> <<>>], [ok |-> TRUE, n |-> 0, data |-> <<>>]}

Forget(c, d) ==
    IF Len(d.received) > MaxBytes
    THEN [d EXCEPT !.received = c.received, !.ops = c.ops]
    ELSE d

LiveInit ==
    /\ call = NewCall(<<"a">>, 80, <<"x">>)
    /\ peer \in {"closes", "never_closes"}
    /\ input = FreeForm(<<>>)
    /\ self = new(input.raw)
    /\ ret = NotCalled
    /\ prev = NotCalled
    /\ calls = 0
    /\ pool = <<>>

\* a loop turn whose read returns a chunk
ReadMore ==
    /\ call.pc = "Receiving"
    /\ \E out \in ChunkOutcomes : call' = Forget(call, ReadStep(call, out))
    /\ UNCHANGED <<urlVars, peer, pool>>

\* a loop turn whose read returns zero bytes or an error
ReadLast ==
    /\ call.pc = "Receiving"
    /\ peer = "closes"
    /\ \E out \in EndOutcomes : call' = ReadStep(call, out)
    /\ UNCHANGED <<urlVars, peer, pool>>

LiveNext ==
    Resolve \/ Connect \/ Send \/ ReadMore \/ ReadLast \/ Decode \/ Construct

LiveSpec ==
    /\ LiveInit
    /\ [][LiveNext]_vars
    /\ WF_vars(Resolve) /\ WF_vars(Connect) /\ WF_vars(Send)
    /\ WF_vars(ReadLast) /\ WF_vars(Decode) /\ WF_vars(Construct)

(***************************************************************************)
(* Several calls of get() at once, on one HttpClient or on several: the    *)
(* struct has no fields and get() takes &self, so what a call reads and    *)
(* writes is its own arguments and locals.  The steps of the calls         *)
(* interleave in any order; each call has its own collaborator answers.    *)
(***************************************************************************)
NumCalls == 2       \* calls running at the same time
MaxChunks == 1      \* most chunks a peer sends to one of these calls

CallIds == 1..NumCalls
ArgsOf(i) ==
    IF i % 2 = 1 THEN [host |-> <<"a">>, port |-> 80, path |-> <<>>]
    ELSE [host |-> <<"b", "c">>, port |-> 8080, path |-> <<"x">>]

ConcLookupOutcomes ==
    {[ok |-> FALSE, ips |-> <<>>], [ok |-> TRUE, ips |-> <<"10.0.0.1", "10.0.0.2">>]}
ConcWriteOutcomes(request) ==
    {[ok |-> FALSE, n |-> 0], [ok |-> TRUE, n |-> Len(request)]}
ConcReadOutcomes(c) ==
    EndOutcomes \cup
        {[ok |-> TRUE, n |-> 1, data |-> <<b>>] :
            b \in IF Len(c.received) < MaxChunks THEN {65, 195} ELSE {}}

\* A step of call i replaces the locals of call i
StepIn_shared_received(p, i, c) ==
    [j \in DOMAIN p |-> IF j = i THEN c ELSE [p[j] EXCEPT !.received = c.received]]

StepIn(p, i, c) == [p EXCEPT ![i] = c]

ConcInit ==
    /\ pool = [i \in CallIds |-> NewCall(ArgsOf(i).host, ArgsOf(i).port, ArgsOf(i).path)]
    /\ call = IdleCall
    /\ peer = "any"
    /\ input = FreeForm(<<>>)
    /\ self = new(input.raw)
    /\ ret = NotCalled
    /\ prev = NotCalled
    /\ calls = 0

CResolve(i) ==
    /\ pool[i].pc = "Resolving"
    /\ \E out \in ConcLookupOutcomes : pool' = StepIn(pool, i, ResolveStep(pool[i], out))
    /\ UNCHANGED <<urlVars, call, peer>>

CConnect(i) ==
    /\ pool[i].pc = "Connecting"
    /\ \E out \in ConnectOutcomes : pool' = StepIn(pool, i, ConnectStep(pool[i], out))
    /\ UNCHANGED <<urlVars, call, peer>>

CSend(i) ==
    /\ pool[i].pc = "Sending"
    /\ \E out \in ConcWriteOutcomes(FormatRequest(pool[i].path, pool[i].host)) :
          pool' = StepIn(pool, i, SendStep(pool[i], out))
    /\ UNCHANGED <<urlVars, call, peer>>

CRead(i) ==
    /\ pool[i].pc = "Receiving"
    /\ \E out \in ConcReadOutcomes(pool[i]) : pool' = StepIn(pool, i, ReadStep(pool[i], out))
    /\ UNCHANGED <<urlVars, call, peer>>

CDecode(i) ==
    /\ pool[i].pc = "Decoding"
    /\ pool' = StepIn(pool, i, DecodeStep(pool[i]))
    /\ UNCHANGED <<urlVars, call, peer>>

CConstruct(i) ==
    /\ pool[i].pc = "Parsing"
    /\ \E out \in ConstructOutcomes(pool[i].response) :
          pool' = StepIn(pool, i, ConstructStep(pool[i], out))
    /\ UNCHANGED <<urlVars, call, peer>>

ConcNext ==
    \E i \in CallIds :
        CResolve(i) \/ CConnect(i) \/ CSend(i) \/ CRead(i) \/ CDecode(i) \/ CConstruct(i)

ConcSpec == ConcInit /\ [][ConcNext]_vars

(***************************************************************************)
(* Properties of Url::parse.                                               *)
(***************************************************************************)
Parsed == ret.kind # "NotCalled"
raw == input.raw

\* The raw string begins with the seven characters h t t p : / /
HasHttpPrefix(s) ==
    /\ Len(s) >= 7
    /\ s[1] = "h" /\ s[2] = "t" /\ s[3] = "t" /\ s[4] = "p"
    /\ s[5] = ":" /\ s[6] = "/" /\ s[7] = "/"

\* s up to, and without, the first character that is in D
UpTo(s, D) ==
    IF \E i \in 1..Len(s) : s[i] \in D
    THEN SubSeq(s, 1, (CHOOSE i \in 1..Len(s) :
                          s[i] \in D /\ \A j \in 1..(i - 1) : s[j] \notin D) - 1)
    ELSE s
\* s after the first character that is in D (empty when there is none)
After(s, D) == SubSeq(s, Len(UpTo(s, D)) + 2, Len(s))
Has(s, D) == \E i \in 1..Len(s) : s[i] \in D

\* The raw string with the scheme prefix removed once, and its host segment
StripOnce(s) == SubSeq(s, 8, Len(s))
HostSegment(s) == UpTo(StripOnce(s), {"/", "?"})

\* C1: parse() fails exactly when the raw string does not start with
\* "http://"; every raw string that does start with it parses successfully,
\* without a failure or an abort, whatever follows the prefix.
C1_ErrorIffNoHttpPrefix ==
    Parsed =>
        /\ (ret.kind = "Err" <=> ~HasHttpPrefix(raw))
        /\ (HasHttpPrefix(raw) => ret.kind = "Ok" /\ ret.val.url = raw)
        /\ (ret.kind = "Err" => ret.err = SchemeError)

C1_Witness ==
    /\ ret.kind = "Ok"
    /\ raw = Scheme \o <<":", "/", "/", "?">>

\* C2: for a raw string starting with "http://", the host is the raw string
\* with the scheme removed once, up to the first '/' or '?', cut at the
\* first ':'; also when what follows the scheme starts with "http://" again.
C2_HostIsSegmentBeforeColon ==
    (Parsed /\ HasHttpPrefix(raw)) =>
        /\ ret.kind = "Ok"
        /\ ret.val.host = UpTo(HostSegment(raw), {":"})

\* C3: for a raw string starting with "http://", the port is what follows
\* the first ':' of the host segment, and "80" when the host segment has no
\* ':'; a ':' in the path or the query does not change it.
C3_PortFollowsColonOrDefault ==
    (Parsed /\ HasHttpPrefix(raw)) =>
        /\ ret.kind = "Ok"
        /\ ret.val.port = IF Has(HostSegment(raw), {":"})
                          THEN After(HostSegment(raw), {":"})
                          ELSE <<"8", "0">>

\* C4: for a raw string starting with "http://", the path is what follows
\* the '/' that ends the host segment, up to the first '?'; it is empty when
\* no '/' ends the host segment, also when a '?' ends it and a '/' occurs
\* only later, in the query.
C4_PathFollowsHostSegment ==
    (Parsed /\ HasHttpPrefix(raw)) =>
        /\ ret.kind = "Ok"
        /\ LET rest == StripOnce(raw)
               n == Len(HostSegment(raw))
           IN  ret.val.path = IF n < Len(rest) /\ rest[n + 1] = "/"
                              THEN UpTo(SubSeq(rest, n + 2, Len(rest)), {"?"})
                              ELSE <<>>

\* C5: parsing "http://" host [":" port] ["/" path] ["?" query] gives back
\* exactly the host, the port ("80" when left out), the path ("" when left
\* out) and the query ("" when left out) it was put together from.
C5_ComposeParseRoundTrip ==
    (Parsed /\ input.composed) =>
        \A c \in input.comp :
            /\ ret.kind = "Ok"
            /\ ret.val.host = c.host
            /\ ret.val.port = (IF c.hasPort THEN c.port ELSE <<"8", "0">>)
            /\ ret.val.path = c.path
            /\ ret.val.searchpart = c.query

\* C6: parsing again, on the same instance or on the record a successful
\* parse() returned, gives a result identical to the one before (the same
\* record, raw string included, or the same error).
C6_ParseIdempotent ==
    calls >= 2 => ret = prev /\ (ret.kind = "Ok" => ret.val.url = raw)

C6_Witness ==
    /\ calls >= 2
    /\ prev.kind = "Ok"
    /\ ret.val.host # <<>> /\ ret.val.path # <<>> /\ ret.val.searchpart # <<>>

(***************************************************************************)
(* Properties of HttpClient::get.                                          *)
(***************************************************************************)
ops == call.ops
OpsNamed(names) == {i \in 1..Len(ops) : ops[i].op \in names}

ResolutionFailed ==
    \E i \in OpsNamed({"lookup_host"}) : ~ops[i].ret.ok \/ Len(ops[i].ret.ips) = 0

\* C7: when the resolver returns an error or an empty address list, get()
\* returns a NetworkError and the call performs no connect, write or read.
C7_NoTransportAfterFailedResolution ==
    ResolutionFailed =>
        /\ call.pc = "Failed"
        /\ call.result.kind = "Err" /\ call.result.variant = "Network"
        /\ call.result.msg \in {LookupFailedMsg, NoAddressMsg}
        /\ OpsNamed({"connect", "write", "read"}) = {}

C7_Witness ==
    /\ call.pc = "Failed"
    /\ \E i \in OpsNamed({"lookup_host"}) : ops[i].ret.ok /\ ops[i].ret.ips = <<>>

\* C8: get() connects only to the first address of the resolved list, with
\* the port it was given; when that connect fails it returns the connect
\* NetworkError and tries no other address.
C8_ConnectFirstAddressOnly ==
    /\ Cardinality(OpsNamed({"connect"})) <= 1
    /\ \A i \in OpsNamed({"connect"}) :
          /\ ops[1].op = "lookup_host"
          /\ ops[i].arg = [addr |-> ops[1].ret.ips[1], port |-> call.port]
          /\ ~ops[i].ret.ok =>
                /\ i = Len(ops)
                /\ call.pc = "Failed"
                /\ call.result.kind = "Err" /\ call.result.variant = "Network"
                /\ call.result.msg = ConnectFailedMsg

C8_Witness ==
    /\ call.pc = "Failed"
    /\ \E i \in OpsNamed({"connect"}) :
          /\ ~ops[i].ret.ok
          /\ Len(ops[1].ret.ips) >= 2
          /\ ops[1].ret.ips[2] # ops[1].ret.ips[1]

\* The request text for a path and a host
ExpectedRequest(path, host) ==
    <<"G", "E", "T", " ", "/">> \o path
      \o <<" ", "H", "T", "T", "P", "/", "1", ".", "1", "\r", "\n">>
      \o <<"H", "o", "s", "t", ":", " ">> \o host \o <<"\r", "\n">>
      \o <<"A", "c", "c", "e", "p", "t", ":", " ",
           "t", "e", "x", "t", "/", "h", "t", "m", "l", "\r", "\n">>
      \o <<"C", "o", "n", "n", "e", "c", "t", "i", "o", "n", ":", " ",
           "c", "l", "o", "s", "e", "\r", "\n">>
      \o <<"\r", "\n">>

\* C9: once get() reads the response, the bytes the transport has accepted
\* from it are the whole request text, whatever count write() returned.
C9_WholeRequestSentBeforeRead ==
    (call.pc = "Receiving" \/ OpsNamed({"read"}) # {}) =>
        call.wire = ExpectedRequest(call.path, call.host)

\* The bytes of the reads from position i on that come before the first
\* read of zero bytes, each chunk cut to the length the read reported
RECURSIVE ChunksFrom(_)
ChunksFrom(i) ==
    IF i > Len(ops) THEN <<>>
    ELSE IF ops[i].op # "read" \/ ~ops[i].ret.ok THEN ChunksFrom(i + 1)
    ELSE IF ops[i].ret.n = 0 THEN <<>>
    ELSE SubSeq(ops[i].ret.data, 1, ops[i].ret.n) \o ChunksFrom(i + 1)

ReadLoopEnded == \E i \in OpsNamed({"read"}) : ops[i].ret.ok /\ ops[i].ret.n = 0
FirstRead == CHOOSE i \in OpsNamed({"read"}) : \A j \in OpsNamed({"read"}) : i <= j

\* C10: when the read loop ends on a read of zero bytes, the buffer given to
\* UTF-8 decoding is the chunks of the reads before it, in order, each of at
\* most 4096 bytes; when the first read returns zero bytes the response
\* constructor gets the empty string.
C10_ReceivedIsChunksInOrder ==
    ReadLoopEnded =>
        /\ call.received = ChunksFrom(1)
        /\ \A i \in OpsNamed({"read"}) : ops[i].ret.n <= 4096
        /\ \A i \in OpsNamed({"read"}) : ops[i].ret.ok /\ ops[i].ret.n = 0 => i = Len(ops) \/ ops[i + 1].op = "from_utf8"
        /\ \A i \in OpsNamed({"from_utf8"}) : ops[i].arg = ChunksFrom(1)
        /\ \A i \in OpsNamed({"HttpResponse::new"}) :
              ops[FirstRead].ret.n = 0 => ops[i].arg = <<>>

C10_Witness ==
    /\ call.pc = "Parsing"
    /\ Cardinality(OpsNamed({"read"})) = 3
    /\ Len(call.received) = 2

Terminal == {"Success", "Failed"}
ConnectSucceeded == \E i \in OpsNamed({"connect"}) : ops[i].ret.ok

In(b, lo, hi) == b >= lo /\ b <= hi
Utf8Unit(u) ==
    \/ Len(u) = 1 /\ In(u[1], 0, 127)
    \/ Len(u) = 2 /\ In(u[1], 194, 223) /\ In(u[2], 128, 191)
    \/ /\ Len(u) = 3
       /\ \/ u[1] = 224 /\ In(u[2], 160, 191)
          \/ In(u[1], 225, 236) /\ In(u[2], 128, 191)
          \/ u[1] = 237 /\ In(u[2], 128, 159)
          \/ In(u[1], 238, 239) /\ In(u[2], 128, 191)
       /\ In(u[3], 128, 191)
    \/ /\ Len(u) = 4
       /\ \/ u[1] = 240 /\ In(u[2], 144, 191)
          \/ In(u[1], 241, 243) /\ In(u[2], 128, 191)
          \/ u[1] = 244 /\ In(u[2], 128, 143)
       /\ In(u[3], 128, 191) /\ In(u[4], 128, 191)
WellFormedUtf8(b) ==
    \E cuts \in SUBSET (0..Len(b)) :
        /\ 0 \in cuts /\ Len(b) \in cuts
        /\ \A k \in cuts : k < Len(b) =>
              \E m \in cuts : m > k /\ m <= k + 4
                              /\ (\A x \in cuts : x <= k \/ x >= m)
                              /\ Utf8Unit(SubSeq(b, k + 1, m))

\* C12: the response constructor is called exactly when the received bytes
\* are well-formed UTF-8, with the decoded text, and get() returns what the
\* constructor returned; ill-formed bytes make get() return the encoding
\* NetworkError without a call of the constructor.
C12_ConstructIffDecoded ==
    /\ \A i \in OpsNamed({"HttpResponse::new"}) :
          /\ i = Len(ops) /\ i > 1
          /\ ops[i - 1].op = "from_utf8"
          /\ WellFormedUtf8(ops[i - 1].arg)
          /\ ops[i - 1].arg = call.received
          /\ ops[i].arg = ops[i - 1].ret.text
          /\ call.result = ops[i].ret
          /\ call.pc = (IF ops[i].ret.kind = "Ok" THEN "Success" ELSE "Failed")
    /\ \A i \in OpsNamed({"from_utf8"}) :
          /\ WellFormedUtf8(ops[i].arg) =>
                (call.pc = "Parsing" \/ OpsNamed({"HttpResponse::new"}) # {})
          /\ ~WellFormedUtf8(ops[i].arg) =>
                /\ call.pc = "Failed"
                /\ call.result = Network(InvalidUtf8Msg)
                /\ OpsNamed({"HttpResponse::new"}) = {}

C12_Witness ==
    /\ call.pc = "Failed"
    /\ call.received = <<195, 169>>
    /\ \E i \in OpsNamed({"HttpResponse::new"}) :
          ops[i].ret.kind = "Err" /\ ops[i].arg = <<233>>

\* The phases of a call in their order, the operation each one performs and
\* what it means for that operation to have succeeded
PhaseRank(pc) ==
    CASE pc = "Resolving" -> 1 [] pc = "Connecting" -> 2 [] pc = "Sending" -> 3
      [] pc = "Receiving" -> 4 [] pc = "Decoding" -> 5 [] pc = "Parsing" -> 6
      [] OTHER -> 7
PhaseOp(pc) ==
    CASE pc = "Resolving" -> "lookup_host" [] pc = "Connecting" -> "connect"
      [] pc = "Sending" -> "write" [] pc = "Receiving" -> "read"
      [] pc = "Decoding" -> "from_utf8" [] pc = "Parsing" -> "HttpResponse::new"
      [] OTHER -> "none"
OpRank(name) ==
    CASE name = "lookup_host" -> 1 [] name = "connect" -> 2 [] name = "write" -> 3
      [] name = "read" -> 4 [] name = "from_utf8" -> 5
      [] name = "HttpResponse::new" -> 6 [] OTHER -> 7
Succeeded(o) ==
    CASE o.op = "lookup_host" -> o.ret.ok /\ Len(o.ret.ips) >= 1
      [] o.op = "read" -> o.ret.ok /\ o.ret.n = 0
      [] o.op = "HttpResponse::new" -> o.ret.kind = "Ok"
      [] OTHER -> o.ret.ok
Continues(o) == o.op = "read" /\ o.ret.ok /\ o.ret.n > 0

PhaseStep ==
    call' # call =>
        /\ call.pc \notin Terminal
        /\ call'.host = call.host /\ call'.port = call.port /\ call'.path = call.path
        /\ Len(ops') = Len(ops) + 1
        /\ SubSeq(ops', 1, Len(ops)) = ops
        /\ LET o == ops'[Len(ops')]
           IN  /\ o.op = PhaseOp(call.pc)
               /\ IF Succeeded(o)
                  THEN IF call.pc = "Parsing" THEN call'.pc = "Success"
                       ELSE PhaseRank(call'.pc) = PhaseRank(call.pc) + 1
                  ELSE IF Continues(o) THEN call'.pc = call.pc
                  ELSE call'.pc = "Failed"

\* C14: a call goes through Resolving, Connecting, Sending, Receiving,
\* Decoding, Parsing in this order, entering a phase only when the one
\* before succeeded; the first failure ends it in Failed; no phase comes
\* back; resolve, connect, write and the response constructor run at most
\* once; after Success or Failed the call performs no operation.
C14_PhasesInOrderNoRetry ==
    /\ [](/\ call.pc \in {"Resolving", "Connecting", "Sending", "Receiving",
                          "Decoding", "Parsing", "Success", "Failed"}
          /\ \A n \in {"lookup_host", "connect", "write", "from_utf8",
                       "HttpResponse::new"} : Cardinality(OpsNamed({n})) <= 1
          /\ \A i \in 1..Len(ops) : \A j \in 1..Len(ops) :
                i < j => /\ Succeeded(ops[i]) \/ Continues(ops[i])
                         /\ OpRank(ops[i].op) <= OpRank(ops[j].op)
                         /\ ops[i].op = ops[j].op => Continues(ops[i])
          /\ (call.pc = "Success" <=>
                \E i \in OpsNamed({"HttpResponse::new"}) : Succeeded(ops[i]))
          /\ (call.pc = "Failed" <=>
                (ops # <<>> /\ ~Succeeded(ops[Len(ops)]) /\ ~Continues(ops[Len(ops)]))))
    /\ [][PhaseStep]_vars

C14_Witness ==
    /\ call.pc = "Success"
    /\ Len(ops) = 8

\* C16: a read error at any turn of the read loop, also after chunks have
\* been received, makes get() return the read NetworkError; the bytes
\* received so far are not decoded and do not reach the response
\* constructor or the result.
C16_ReadErrorDiscardsReceived ==
    \A i \in OpsNamed({"read"}) :
        ~ops[i].ret.ok =>
            /\ i = Len(ops)
            /\ call.pc = "Failed"
            /\ call.result = Network(ReceiveFailedMsg)
            /\ call.result.text = <<>>
            /\ OpsNamed({"from_utf8", "HttpResponse::new"}) = {}

C16_Witness ==
    /\ call.pc = "Failed"
    /\ Len(call.received) = 2
    /\ Cardinality(OpsNamed({"read"})) = 3
    /\ ~ops[Len(ops)].ret.ok

\* C15: every collaborator call returning, get() reaches Success or Failed
\* when the peer at some time delivers a read of zero bytes or a read
\* error; the loop has no other way out, so with a peer that delivers
\* chunks for ever get() stays in the read loop for ever.
C15_ReturnsOnlyWhenPeerEnds ==
    /\ (peer = "closes" => <>(call.pc \in Terminal))
    /\ [](peer = "never_closes" /\ call.pc = "Receiving"
            => [](call.pc = "Receiving"))
    /\ [][call.pc = "Receiving" /\ call'.pc # "Receiving" =>
            LET o == ops'[Len(ops')]
            IN  o.op = "read" /\ (~o.ret.ok \/ o.ret.n = 0)]_vars

C15_Witness ==
    /\ peer = "never_closes"
    /\ call.pc = "Receiving"
    /\ Len(call.received) = MaxBytes
    /\ Cardinality(OpsNamed({"read"})) >= 2

\* What a call is after performing, on its own, the operations of a log
\* with the answers recorded in it
StepAlone(c, out) ==
    CASE c.pc = "Resolving" -> ResolveStep(c, out)
      [] c.pc = "Connecting" -> ConnectStep(c, out)
      [] c.pc = "Sending" -> SendStep(c, out)
      [] c.pc = "Receiving" -> ReadStep(c, out)
      [] c.pc = "Decoding" -> DecodeStep(c)
      [] c.pc = "Parsing" -> ConstructStep(c, out)
      [] OTHER -> [c EXCEPT !.pc = "Stuck"]
RECURSIVE Alone(_, _, _)
Alone(c, log, k) ==
    IF k > Len(log) THEN c ELSE Alone(StepAlone(c, log[k].ret), log, k + 1)

\* C13: calls of get() that run at the same time, their steps interleaved
\* in any order, share no state: a step of one call changes no other call,
\* and each call's result and operations are those of the same call run
\* alone against the same collaborator answers.
C13_ConcurrentCallsIndependent ==
    /\ [](\A i \in CallIds :
            pool[i] = Alone(NewCall(ArgsOf(i).host, ArgsOf(i).port, ArgsOf(i).path),
                            pool[i].ops, 1))
    /\ [][\A i \in CallIds : pool'[i] # pool[i] =>
            \A j \in CallIds \ {i} : pool'[j] = pool[j]]_vars

C13_Witness ==
    /\ pool[1].pc = "Success" /\ pool[1].received = <<65>>
    /\ pool[2].pc = "Failed" /\ pool[2].received = <<195>>
    /\ pool[2].result = Network(InvalidUtf8Msg)

(***************************************************************************)
(* Further properties of Url::parse.                                       *)
(***************************************************************************)
\* C17: a parse() that fails leaves the instance as it was: the raw string
\* and the four fields are the same after the call as before it, so an
\* instance built by new() still has all four fields empty.
C17_FailedParseLeavesInstance ==
    /\ [](ret.kind = "Err" =>
            /\ self.url = raw
            /\ self.host = <<>> /\ self.port = <<>>
            /\ self.path = <<>> /\ self.searchpart = <<>>)
    /\ [][ret'.kind = "Err" => self' = self]_vars

C17_Witness ==
    /\ ret.kind = "Err"
    /\ calls = 2
    /\ raw = <<"a", ":", "8", "/">>

Digits == {"0", "1", "2", "3", "4", "5", "6", "7", "8", "9"}

\* C18: after a successful parse() the port is a decimal number written as
\* a string: not empty and made of digits only, also when the host segment
\* ends in ':' or has other characters than digits after the ':'.
C18_PortIsDecimal ==
    ret.kind = "Ok" =>
        /\ ret.val.port # <<>>
        /\ \A i \in 1..Len(ret.val.port) : ret.val.port[i] \in Digits

\* C19: after a successful parse() the path does not start with '/' and the
\* searchpart does not start with '?', also when several '/' follow the
\* host segment or several '?' follow each other.
C19_NoLeadingDelimiter ==
    ret.kind = "Ok" =>
        /\ (ret.val.path # <<>> => ret.val.path[1] # "/")
        /\ (ret.val.searchpart # <<>> => ret.val.searchpart[1] # "?")

====
